---- MODULE Spec2Model ----
(***************************************************************************)
(* Model of src/task1/task1.py: N Station threads contend for one shared   *)
(* medium (the class attributes Station.isMediumIdle, Station.frameBuffer). *)
(* Every shared read or write of a station is its own step; operations on  *)
(* the station's private fields are folded into the shared access that     *)
(* precedes them.  Sleeps are program positions.                           *)
(***************************************************************************)
EXTENDS Integers, Sequences, FiniteSets, TLC

\* ---- bounds ----
\* largest stationCount handed to runSession
MaxStations == 3
\* largest stationCount in the fair (liveness) specification
MaxLiveStations == 2
\* Station.maxAttemptCount (line 24) is 15.  A station collides k times on
\* one frame only if other stations deliver at least k - 1 frames meanwhile,
\* so 16 collisions need six stations.  The model scales the limit down so
\* that the exhaustion branch (lines 68-70) is reachable with MaxStations.
maxAttemptCount == 1

VARIABLES
  stationCount,      \* argument of runSession
  frameCount,        \* station -> self.frameCount
  transmittedCount,  \* station -> self.transmittedCount
  attemptNumber,     \* station -> self.attemptNumber
  isMediumIdle,      \* Station.isMediumIdle
  frameBuffer,       \* Station.frameBuffer
  pc,                \* station -> position in run()
  reason,            \* station -> how run() left its while loop
  sessionEnded,      \* runSession passed all joins
  overwritten,       \* history: another station wrote the buffer after
                     \*   this station's own write, before its verify
  overlapped,        \* history: another station's transmit window
                     \*   overlapped this station's current window
  okPeer,            \* history: a station whose window overlapped this
                     \*   station's current window verified successfully
  backoffPeriod,     \* station -> local backoffPeriod of run() while the
                     \*   station sleeps at line 74, else 0; observed
                     \*   only in ObservedSpec
  releasedSince      \* history: another station ran line 80 after this
                     \*   station last ran line 60 (kept until the
                     \*   station's own success or break); observed
                     \*   only in ObservedSpec

vars == <<stationCount, frameCount, transmittedCount, attemptNumber,
          isMediumIdle, frameBuffer, pc, reason, sessionEnded,
          backoffPeriod, overwritten, overlapped, okPeer, releasedSince>>

Stations == 0 .. (stationCount - 1)

frameTemplateNoName(i, k) == <<0, k>>
\* Station.frameTemplate.format(name, index); name is 'Apollo<i>'
frameTemplate(i, k) == <<i, k>>

isMediumIdleDefaultBusy == FALSE
\* Station.isMediumIdle = True
isMediumIdleDefault == TRUE

\* Station.frameBuffer = ''
emptyBuffer == <<>>

isCollisionDetectedNever(frame, buffer) == FALSE
isCollisionDetectedAlways(frame, buffer) == TRUE
\* Station.isCollisionDetected
isCollisionDetected(frame, buffer) == frame # buffer

attemptsExhaustedLate(a) == a > maxAttemptCount + 1
attemptsExhaustedNever(a) == FALSE
attemptsExhaustedEarly(a) == a >= maxAttemptCount
\* line 68: self.attemptNumber > Station.maxAttemptCount
attemptsExhausted(a) == a > maxAttemptCount

\* times are counted in units of 0.1 microsecond
\* Station.interframeGap = 5e-1 (seconds)
interframeGap == 5000000
\* the slot time 9.6e-6 (seconds) of getBackoffPeriod
slotTime == 96

\* random.randint(a, b): an integer of the inclusive range a..b
randint(a, b) == a .. b

randintUpperNext(k) == 2 ^ (k + 1)
\* 2 ** self.attemptNumber, the upper end of the draw in getBackoffPeriod
randintUpper(k) == 2 ^ k

\* Station.getBackoffPeriod, for the drawn integer r
getBackoffPeriod(r) == interframeGap + slotTime * r

quotaUniform(i) == 1
\* runSession: Station(f'Apollo{i}', i + 1)
quota(i) == i + 1

\* a station is inside its transmit window: frame written, verify pending
InWindow(s) == pc[s] = "verify"

InitFor(n) ==
  /\ stationCount = n
  /\ frameCount = [i \in 0 .. (n - 1) |-> quota(i)]
  /\ transmittedCount = [i \in 0 .. (n - 1) |-> 0]
  /\ attemptNumber = [i \in 0 .. (n - 1) |-> 1]
  /\ isMediumIdle = isMediumIdleDefault
  /\ frameBuffer = emptyBuffer
  /\ pc = [i \in 0 .. (n - 1) |-> "start"]
  /\ reason = [i \in 0 .. (n - 1) |-> "none"]
  /\ sessionEnded = FALSE
  /\ overwritten = [i \in 0 .. (n - 1) |-> FALSE]
  /\ overlapped = [i \in 0 .. (n - 1) |-> FALSE]
  /\ backoffPeriod = [i \in 0 .. (n - 1) |-> 0]
  /\ okPeer = [i \in 0 .. (n - 1) |-> FALSE]
  /\ releasedSince = [i \in 0 .. (n - 1) |-> FALSE]

Init == \E n \in 1 .. MaxStations : InitFor(n)

LoopHeadOffByOne(s, tc) == IF tc <= frameCount[s] THEN "sense" ELSE "done"
\* line 55: the while test, taken whenever control reaches the loop head
LoopHead(s, tc) == IF tc < frameCount[s] THEN "sense" ELSE "done"
LoopReason(s, tc) == IF tc < frameCount[s] THEN "none" ELSE "quota"

\* lines 53-55: thread started, first loop test
Start(s) ==
  /\ pc[s] = "start"
  /\ pc' = [pc EXCEPT ![s] = LoopHead(s, transmittedCount[s])]
  /\ reason' = [reason EXCEPT ![s] = LoopReason(s, transmittedCount[s])]
  /\ UNCHANGED <<stationCount, frameCount, transmittedCount, attemptNumber,
                 isMediumIdle, frameBuffer, sessionEnded, overwritten, overlapped, okPeer,
                 releasedSince,
                 backoffPeriod>>

\* line 56: one poll of Station.isMediumIdle
Sense(s) ==
  /\ pc[s] = "sense"
  /\ pc' = [pc EXCEPT ![s] = IF isMediumIdle THEN "busy" ELSE "sleep"]
  /\ UNCHANGED <<stationCount, frameCount, transmittedCount, attemptNumber,
                 isMediumIdle, frameBuffer, reason, sessionEnded,
                 backoffPeriod, overwritten, overlapped, okPeer, releasedSince,
                 backoffPeriod>>

\* line 57: the poll sleep ends
Wake(s) ==
  /\ pc[s] = "sleep"
  /\ pc' = [pc EXCEPT ![s] = "sense"]
  /\ UNCHANGED <<stationCount, frameCount, transmittedCount, attemptNumber,
                 isMediumIdle, frameBuffer, reason, sessionEnded,
                 backoffPeriod, overwritten, overlapped, okPeer, releasedSince,
                 backoffPeriod>>

\* lines 59-60: Station.isMediumIdle = False
MarkBusy(s) ==
  /\ pc[s] = "busy"
  /\ isMediumIdle' = FALSE
  /\ pc' = [pc EXCEPT ![s] = "write"]
  /\ releasedSince' = [releasedSince EXCEPT ![s] = FALSE]
  /\ UNCHANGED <<stationCount, frameCount, transmittedCount, attemptNumber,
                 frameBuffer, reason, sessionEnded, overwritten, overlapped, okPeer,
                 backoffPeriod>>

\* lines 61-64: format the frame, store it in the shared buffer, start hold
Write(s) ==
  /\ pc[s] = "write"
  /\ frameBuffer' = frameTemplate(s, transmittedCount[s])
  /\ pc' = [pc EXCEPT ![s] = "verify"]
  /\ LET open == {t \in Stations : t # s /\ InWindow(t)}
     IN /\ overwritten' = [t \in Stations |->
                              IF t = s THEN FALSE
                              ELSE IF t \in open THEN TRUE
                              ELSE overwritten[t]]
        /\ overlapped' = [t \in Stations |->
                             IF t = s THEN open # {}
                             ELSE IF t \in open THEN TRUE
                             ELSE overlapped[t]]
        /\ UNCHANGED okPeer
  /\ UNCHANGED <<stationCount, frameCount, transmittedCount, attemptNumber,
                 isMediumIdle, reason, sessionEnded,
                 releasedSince,
                 backoffPeriod>>

GiveUpClearsBuffer(s) ==
  /\ pc' = [pc EXCEPT ![s] = "done"]
  /\ reason' = [reason EXCEPT ![s] = "break"]
  /\ frameBuffer' = emptyBuffer
  /\ okPeer' = [okPeer EXCEPT ![s] = FALSE]
  /\ releasedSince' = [releasedSince EXCEPT ![s] = FALSE]
  /\ UNCHANGED <<transmittedCount, attemptNumber,
                 backoffPeriod>>

\* lines 67-70: collision with the attempts exhausted: break
GiveUp(s) ==
  /\ pc' = [pc EXCEPT ![s] = "done"]
  /\ reason' = [reason EXCEPT ![s] = "break"]
  /\ okPeer' = [okPeer EXCEPT ![s] = FALSE]
  /\ releasedSince' = [releasedSince EXCEPT ![s] = FALSE]
  /\ UNCHANGED <<transmittedCount, attemptNumber, frameBuffer,
                 backoffPeriod>>

\* lines 67-74: collision with attempts left: start the backoff sleep.
\* The length of the sleep is written at line 72 and read only at lines
\* 73-74; this step leaves it unobserved.
StartBackoff(s) ==
  /\ pc' = [pc EXCEPT ![s] = "backoff"]
  /\ okPeer' = [okPeer EXCEPT ![s] = FALSE]
  /\ UNCHANGED <<transmittedCount, attemptNumber, frameBuffer, reason,
                 releasedSince, backoffPeriod>>

\* lines 67-74 with the backoffPeriod of line 72 observed: the integer is
\* drawn by randint(0, 2 ** self.attemptNumber)
StartBackoffTimed(s) ==
  /\ pc' = [pc EXCEPT ![s] = "backoff"]
  /\ \E r \in randint(0, randintUpper(attemptNumber[s])) :
       backoffPeriod' = [backoffPeriod EXCEPT ![s] = getBackoffPeriod(r)]
  /\ okPeer' = [okPeer EXCEPT ![s] = FALSE]
  /\ UNCHANGED <<transmittedCount, attemptNumber, frameBuffer, reason,
                 releasedSince>>

CountFrameKeepsAttempt(s) ==
  /\ transmittedCount' = [transmittedCount EXCEPT ![s] = @ + 1]
  /\ pc' = [pc EXCEPT ![s] = "release"]
  /\ okPeer' = [t \in Stations |->
                  IF t = s THEN FALSE
                  ELSE IF InWindow(t) THEN TRUE
                  ELSE okPeer[t]]
  /\ releasedSince' = [releasedSince EXCEPT ![s] = FALSE]
  /\ UNCHANGED <<attemptNumber, frameBuffer, reason,
                 backoffPeriod>>

\* lines 77-79: no collision: count the frame, reset the attempt number
CountFrame(s) ==
  /\ transmittedCount' = [transmittedCount EXCEPT ![s] = @ + 1]
  /\ attemptNumber' = [attemptNumber EXCEPT ![s] = 1]
  /\ pc' = [pc EXCEPT ![s] = "release"]
  /\ okPeer' = [t \in Stations |->
                  IF t = s THEN FALSE
                  ELSE IF InWindow(t) THEN TRUE
                  ELSE okPeer[t]]
  /\ releasedSince' = [releasedSince EXCEPT ![s] = FALSE]
  /\ UNCHANGED <<frameBuffer, reason,
                 backoffPeriod>>

\* lines 64-79: the hold ends, the buffer is read back and compared with
\* the frame of line 61
Verify(s) ==
  /\ pc[s] = "verify"
  /\ IF isCollisionDetected(frameTemplate(s, transmittedCount[s]),
                            frameBuffer)
     THEN IF attemptsExhausted(attemptNumber[s])
          THEN GiveUp(s)
          ELSE StartBackoff(s)
     ELSE CountFrame(s)
  /\ overwritten' = [overwritten EXCEPT ![s] = FALSE]
  /\ overlapped' = [overlapped EXCEPT ![s] = FALSE]
  /\ UNCHANGED <<stationCount, frameCount, isMediumIdle, sessionEnded>>

\* lines 64-79 with the backoffPeriod of line 72 observed
VerifyTimed(s) ==
  /\ pc[s] = "verify"
  /\ IF isCollisionDetected(frameTemplate(s, transmittedCount[s]),
                            frameBuffer)
     THEN IF attemptsExhausted(attemptNumber[s])
          THEN GiveUp(s)
          ELSE StartBackoffTimed(s)
     ELSE CountFrame(s)
  /\ overwritten' = [overwritten EXCEPT ![s] = FALSE]
  /\ overlapped' = [overlapped EXCEPT ![s] = FALSE]
  /\ UNCHANGED <<stationCount, frameCount, isMediumIdle, sessionEnded>>

BackoffReleases(s) ==
  /\ pc[s] = "backoff"
  /\ attemptNumber' = [attemptNumber EXCEPT ![s] = @ + 1]
  /\ isMediumIdle' = TRUE
  /\ backoffPeriod' = [backoffPeriod EXCEPT ![s] = 0]
  /\ pc' = [pc EXCEPT ![s] = LoopHead(s, transmittedCount[s])]
  /\ reason' = [reason EXCEPT ![s] = LoopReason(s, transmittedCount[s])]
  /\ UNCHANGED <<stationCount, frameCount, transmittedCount,
                 frameBuffer, sessionEnded, overwritten, overlapped, okPeer,
                 releasedSince>>

\* lines 74-75, 55: the backoff sleep ends, attemptNumber += 1, loop test
Backoff(s) ==
  /\ pc[s] = "backoff"
  /\ attemptNumber' = [attemptNumber EXCEPT ![s] = @ + 1]
  /\ backoffPeriod' = [backoffPeriod EXCEPT ![s] = 0]
  /\ pc' = [pc EXCEPT ![s] = LoopHead(s, transmittedCount[s])]
  /\ reason' = [reason EXCEPT ![s] = LoopReason(s, transmittedCount[s])]
  /\ UNCHANGED <<stationCount, frameCount, transmittedCount, isMediumIdle,
                 frameBuffer, sessionEnded, overwritten, overlapped, okPeer,
                 releasedSince>>

ReleaseKeepsBusy(s) ==
  /\ pc[s] = "release"
  /\ pc' = [pc EXCEPT ![s] = LoopHead(s, transmittedCount[s])]
  /\ reason' = [reason EXCEPT ![s] = LoopReason(s, transmittedCount[s])]
  /\ UNCHANGED <<stationCount, frameCount, transmittedCount, attemptNumber,
                 isMediumIdle, frameBuffer, sessionEnded,
                 backoffPeriod, overwritten, overlapped, okPeer, releasedSince,
                 backoffPeriod>>

\* station t ran line 60 and has neither succeeded nor broken out since
HoldsMark(t) ==
  \/ pc[t] \in {"write", "verify", "backoff"}
  \/ pc[t] \in {"sense", "sleep"} /\ attemptNumber[t] > 1

\* lines 80-81, 55: Station.isMediumIdle = True, loop test
Release(s) ==
  /\ pc[s] = "release"
  /\ isMediumIdle' = TRUE
  /\ pc' = [pc EXCEPT ![s] = LoopHead(s, transmittedCount[s])]
  /\ reason' = [reason EXCEPT ![s] = LoopReason(s, transmittedCount[s])]
  /\ UNCHANGED <<stationCount, frameCount, transmittedCount, attemptNumber,
                 frameBuffer, sessionEnded, overwritten, overlapped, okPeer,
                 backoffPeriod, releasedSince>>

\* lines 80-81, 55 with the release observed by the stations that hold a
\* busy mark
ReleaseTracked(s) ==
  /\ pc[s] = "release"
  /\ isMediumIdle' = TRUE
  /\ releasedSince' = [t \in Stations |->
                         (t # s /\ HoldsMark(t)) \/ releasedSince[t]]
  /\ pc' = [pc EXCEPT ![s] = LoopHead(s, transmittedCount[s])]
  /\ reason' = [reason EXCEPT ![s] = LoopReason(s, transmittedCount[s])]
  /\ UNCHANGED <<stationCount, frameCount, transmittedCount, attemptNumber,
                 frameBuffer, sessionEnded, overwritten, overlapped, okPeer,
                 backoffPeriod>>

\* lines 115-118: every join returned
Join ==
  /\ ~sessionEnded
  /\ \A s \in Stations : pc[s] = "done"
  /\ sessionEnded' = TRUE
  /\ UNCHANGED <<stationCount, frameCount, transmittedCount, attemptNumber,
                 isMediumIdle, frameBuffer, pc, reason, overwritten, overlapped, okPeer,
                 releasedSince,
                 backoffPeriod>>

\* one step of Station.run in thread s
StationStep(s) ==
  \/ Start(s)
  \/ Sense(s)
  \/ Wake(s)
  \/ MarkBusy(s)
  \/ Write(s)
  \/ Verify(s)
  \/ Backoff(s)
  \/ Release(s)

Next ==
  \/ \E s \in Stations : StationStep(s)
  \/ Join

Spec == Init /\ [][Next]_vars

\* the same program under fair scheduling of the station threads and of the
\* main thread: a runnable thread is eventually scheduled
LiveInit == \E n \in 1 .. MaxLiveStations : InitFor(n)

Fairness ==
  /\ \A s \in 0 .. (MaxLiveStations - 1) :
        WF_vars(s \in Stations /\ StationStep(s))
  /\ WF_vars(Join)

LiveSpec == LiveInit /\ [][Next]_vars /\ Fairness

\* the program with the history of backoff periods and releases observed
ObservedStep(s) ==
  \/ Start(s)
  \/ Sense(s)
  \/ Wake(s)
  \/ MarkBusy(s)
  \/ Write(s)
  \/ VerifyTimed(s)
  \/ Backoff(s)
  \/ ReleaseTracked(s)

ObservedNext ==
  \/ \E s \in Stations : ObservedStep(s)
  \/ Join

ObservedSpec == LiveInit /\ [][ObservedNext]_vars

TypeOK ==
  /\ stationCount \in 1 .. MaxStations
  /\ \A s \in Stations :
       /\ pc[s] \in {"start", "sense", "sleep", "busy", "write", "verify",
                     "backoff", "release", "done"}
       /\ reason[s] \in {"none", "quota", "break"}

Terminated(s) == pc[s] = "done"
AllTerminated == \A s \in Stations : Terminated(s)

WaitingOrBackingOff(s) == pc[s] \in {"sense", "sleep", "backoff"}

\* the verify step of station s and its two outcomes
Verifies(s) == pc[s] = "verify" /\ pc'[s] # "verify"
Succeeded(s) == Verifies(s) /\ pc'[s] = "release"
Collided(s) == Verifies(s) /\ pc'[s] \in {"backoff", "done"}

\* C1: under fair scheduling every station eventually leaves its run loop
\* in a terminal state and the join over all stations then completes.
SessionCompletes == <>(AllTerminated /\ sessionEnded)

SessionCompletesWitness ==
  /\ stationCount >= 2
  /\ AllTerminated
  /\ sessionEnded

\* C2: no reachable state has a live station, a busy medium and every live
\* station sensing or backing off (nobody left to set the medium idle).
NoDeadlock ==
  ~ /\ \E s \in Stations : ~Terminated(s)
    /\ ~isMediumIdle
    /\ \A s \in Stations : ~Terminated(s) => WaitingOrBackingOff(s)

NoDeadlockWitness ==
  \E s, t \in Stations :
    /\ reason[s] = "break"
    /\ pc[t] = "sleep"
    /\ ~isMediumIdle

\* C3 as stated: every station whose transmit window overlapped another
\* station's window reports a collision at its verify step.
CollisionSymmetry ==
  [][\A s \in Stations : (Verifies(s) /\ overlapped[s]) => Collided(s)]_vars

\* C3 amended: of two overlapping transmissions the one whose frame was
\* overwritten inside its window reports a collision at its verify step.
OverwrittenCollides ==
  [][\A s \in Stations : (Verifies(s) /\ overwritten[s]) => Collided(s)]_vars

OverwrittenCollidesWitness ==
  \E s, t \in Stations :
    /\ s # t
    /\ pc[s] = "backoff"
    /\ pc[t] = "verify"
    /\ overlapped[t]
    /\ frameBuffer = frameTemplate(t, transmittedCount[t])

\* C4: a station whose window overlapped the window of a station that
\* reported success reports a collision itself: never both successful.
NotBothSuccessful ==
  [][\A s \in Stations : (Verifies(s) /\ okPeer[s]) => Collided(s)]_vars

NotBothSuccessfulWitness ==
  \E s, t \in Stations :
    /\ s # t
    /\ pc[s] = "release"
    /\ pc[t] = "verify"
    /\ okPeer[t]

\* C5: a station whose frame nobody overwrote between its write and its
\* verify read reports success and counts exactly one more frame.
NoCollisionCorrectness ==
  [][\A s \in Stations :
       (Verifies(s) /\ ~overwritten[s]) =>
         /\ Succeeded(s)
         /\ transmittedCount'[s] = transmittedCount[s] + 1]_vars

NoCollisionCorrectnessWitness ==
  \E s \in Stations :
    /\ pc[s] = "release"
    /\ transmittedCount[s] = 2
    /\ frameBuffer = frameTemplate(s, 1)

\* C6: attemptNumber never exceeds maxAttemptCount + 1.
AttemptBound ==
  \A s \in Stations : attemptNumber[s] <= maxAttemptCount + 1

AttemptBoundWitness ==
  \E s \in Stations :
    /\ attemptNumber[s] = maxAttemptCount + 1
    /\ reason[s] = "break"

\* C7 as stated: no success is ever recorded by a station while its
\* attemptNumber equals maxAttemptCount + 1.
NoSuccessAtLastAttempt ==
  [][\A s \in Stations :
       (Verifies(s) /\ attemptNumber[s] = maxAttemptCount + 1)
         => ~Succeeded(s)]_vars

\* C7 amended: a station that detects a collision while its attemptNumber
\* equals maxAttemptCount + 1 terminates with max-attempts-exceeded without
\* counting the frame, and no station terminates that way otherwise.
ExhaustionOnCollision ==
  [][\A s \in Stations :
       /\ (Collided(s) /\ attemptNumber[s] = maxAttemptCount + 1) =>
            /\ pc'[s] = "done"
            /\ reason'[s] = "break"
            /\ transmittedCount'[s] = transmittedCount[s]
            /\ transmittedCount'[s] < frameCount[s]
       /\ (reason[s] # "break" /\ reason'[s] = "break") =>
            /\ Collided(s)
            /\ attemptNumber[s] = maxAttemptCount + 1]_vars

ExhaustionOnCollisionWitness ==
  \E s \in Stations :
    /\ pc[s] = "done"
    /\ reason[s] = "break"
    /\ attemptNumber[s] = maxAttemptCount + 1
    /\ transmittedCount[s] < frameCount[s]
    /\ frameBuffer # frameTemplate(s, transmittedCount[s])

SingleStationSafe ==
  /\ pc[0] \notin {"sleep", "backoff"}
  /\ reason[0] # "break"
  /\ attemptNumber[0] = 1
  /\ (pc[0] = "sense" => isMediumIdle)
  /\ (pc[0] = "done" =>
        /\ reason[0] = "quota"
        /\ transmittedCount[0] = 1
        /\ frameCount[0] = 1)

SingleStation ==
  /\ [](stationCount = 1 => SingleStationSafe)
  /\ (stationCount = 1) => <>(sessionEnded /\ transmittedCount[0] = 1)

SingleStationWitness ==
  /\ stationCount = 1
  /\ sessionEnded
  /\ transmittedCount[0] = 1
  /\ frameBuffer = frameTemplate(0, 0)

\* C10: runSession(n) creates stations 0..n-1, station i keeps frameCount
\* i + 1 throughout, and ends with transmittedCount = i + 1 when it leaves
\* the loop by its quota.
QuotaIsIndexPlusOne ==
  /\ DOMAIN frameCount = 0 .. (stationCount - 1)
  /\ DOMAIN pc = 0 .. (stationCount - 1)
  /\ \A i \in Stations :
       /\ frameCount[i] = i + 1
       /\ (reason[i] = "quota" => transmittedCount[i] = i + 1)

QuotaIsIndexPlusOneWitness ==
  /\ stationCount = 3
  /\ reason[0] = "quota"
  /\ reason[1] = "quota"
  /\ reason[2] = "quota"
  /\ transmittedCount[2] = 3

\* a step of station s from one of the given positions
StepsFrom(s, places) == pc[s] \in places /\ pc'[s] # pc[s]

\* C11: a station detects a collision at its verify step if and only if
\* another station wrote the buffer after its own write and before its
\* verify read.
CollisionIffOverwritten ==
  [][\A s \in Stations :
       Verifies(s) => (Collided(s) <=> overwritten[s])]_vars

CollisionIffOverwrittenWitness ==
  \E s, t \in Stations :
    /\ s # t
    /\ pc[s] = "verify"
    /\ pc[t] = "verify"
    /\ overwritten[s]
    /\ ~overwritten[t]
    /\ frameBuffer = <<t, transmittedCount[t]>>

\* C13: neither collision branch (break; backoff then attemptNumber += 1)
\* changes isMediumIdle, frameBuffer or the station's transmittedCount;
\* only the success branch sets the medium idle.
CollisionBranchesKeep(s) ==
  (Collided(s) \/ StepsFrom(s, {"backoff"})) =>
    /\ isMediumIdle' = isMediumIdle
    /\ frameBuffer' = frameBuffer
    /\ transmittedCount'[s] = transmittedCount[s]

OnlySuccessSetsIdle ==
  (~isMediumIdle /\ isMediumIdle') =>
    \E s \in Stations : StepsFrom(s, {"release"})

CollisionLeavesMedium ==
  [][(\A s \in Stations : CollisionBranchesKeep(s))
      /\ OnlySuccessSetsIdle]_vars

CollisionLeavesMediumWitness ==
  \E s, t \in Stations :
    /\ s # t
    /\ reason[s] = "break"
    /\ pc[t] = "backoff"
    /\ ~isMediumIdle

\* C14: while any station is between marking the medium busy and the end
\* of its verify step, isMediumIdle is False.
BusyWhileTransmitting ==
  \A s \in Stations : pc[s] \in {"write", "verify"} => ~isMediumIdle

\* C15: attemptNumber is at least 1; a successful verify sets it to 1; a
\* collision after which the station continues raises it by exactly 1
\* (at the end of the backoff); no other step of the station changes it.
AttemptStep(s) ==
  /\ attemptNumber[s] >= 1
  /\ attemptNumber'[s] >= 1
  /\ Succeeded(s) => attemptNumber'[s] = 1
  /\ StepsFrom(s, {"backoff"}) => attemptNumber'[s] = attemptNumber[s] + 1
  /\ (Collided(s) \/ StepsFrom(s, {"start", "sense", "sleep", "busy",
                                    "write", "release", "done"})
        \/ pc'[s] = pc[s])
       => attemptNumber'[s] = attemptNumber[s]

AttemptTransitions == [][\A s \in Stations : AttemptStep(s)]_vars

AttemptTransitionsWitness ==
  \E s \in Stations :
    /\ pc[s] = "sense"
    /\ attemptNumber[s] = 2
    /\ transmittedCount[s] = 1

\* C17: once every station has terminated the medium is idle, also when
\* some station terminated with max-attempts-exceeded.
IdleAtSessionEnd == AllTerminated => isMediumIdle

IdleAtSessionEndWitness ==
  /\ AllTerminated
  /\ isMediumIdle
  /\ \E s \in Stations : reason[s] = "break"

\* C18: a written frame carries the station's current transmittedCount,
\* transmittedCount changes only at a successful verify and only by +1,
\* and 0 <= transmittedCount <= frameCount.
DeliveryStep(s) ==
  /\ StepsFrom(s, {"write"}) => frameBuffer' = <<s, transmittedCount[s]>>
  /\ Succeeded(s) => transmittedCount'[s] = transmittedCount[s] + 1
  /\ ~Succeeded(s) => transmittedCount'[s] = transmittedCount[s]
  /\ 0 <= transmittedCount[s] /\ transmittedCount[s] <= frameCount[s]
  /\ 0 <= transmittedCount'[s] /\ transmittedCount'[s] <= frameCount[s]

InOrderDelivery == [][\A s \in Stations : DeliveryStep(s)]_vars

InOrderDeliveryWitness ==
  \E s \in Stations :
    /\ pc[s] = "verify"
    /\ attemptNumber[s] = 2
    /\ transmittedCount[s] = 1
    /\ frameBuffer = <<s, 1>>

\* C19: a terminated station either met its quota with attemptNumber 1 or
\* broke out on a collision with transmittedCount < frameCount and
\* attemptNumber = maxAttemptCount + 1.
TerminationConsistent(s) ==
  Terminated(s) =>
    \/ /\ reason[s] = "quota"
       /\ transmittedCount[s] = frameCount[s]
       /\ attemptNumber[s] = 1
    \/ /\ reason[s] = "break"
       /\ transmittedCount[s] < frameCount[s]
       /\ attemptNumber[s] = maxAttemptCount + 1
       /\ frameBuffer # <<s, transmittedCount[s]>>

TerminationReasons ==
  \A s \in Stations :
    /\ TerminationConsistent(s)
    /\ reason[s] # "none" => Terminated(s)

TerminationReasonsWitness ==
  /\ sessionEnded
  /\ \E s, t \in Stations : reason[s] = "quota" /\ reason[t] = "break"

\* C12: after a non-exhausting collision the station leaves its sensing
\* loop only if another station's success set the medium idle after the
\* station last marked it busy, and the station itself does not touch
\* isMediumIdle between its collision and its next transmit.
ReleaseCouplingStep(s) ==
  /\ (pc[s] = "sense" /\ pc'[s] = "busy" /\ attemptNumber[s] > 1)
       => releasedSince[s]
  /\ StepsFrom(s, {"backoff", "sense", "sleep"})
       => isMediumIdle' = isMediumIdle

ReleaseCoupling == [][\A s \in Stations : ReleaseCouplingStep(s)]_vars

ReleaseCouplingWitness ==
  \E s \in Stations :
    /\ pc[s] = "busy"
    /\ attemptNumber[s] = 2
    /\ releasedSince[s]

\* C16: the backoff of attempt k is interframeGap + slotTime * r with r an
\* integer of 0 .. 2^k; the upper end 2^k does not decrease with k; the
\* backoff is computed only with attemptNumber <= maxAttemptCount, so r
\* never exceeds 2^maxAttemptCount.
BackoffInRange(s) ==
  pc[s] = "backoff" =>
    /\ attemptNumber[s] <= maxAttemptCount
    /\ \E r \in 0 .. (2 ^ attemptNumber[s]) :
         /\ backoffPeriod[s] = interframeGap + slotTime * r
         /\ r <= 2 ^ maxAttemptCount

====
